---- MODULE Spec2Model ----
(***************************************************************************)
(* Guest-side function modules of stardog-wasm (pi, e, frac_pi_3,          *)
(* to_upper, toupper_ptr_len) and the host/guest buffer protocol they      *)
(* share: malloc / free, null-terminated UTF-8 text buffers, and the       *)
(* evaluate entry point that reads a document and returns an envelope.     *)
(*                                                                         *)
(* Text is modelled at two levels, as the code has them: a buffer is a     *)
(* sequence of bytes (0..255), a Rust str / String is viewed as its        *)
(* sequence of Unicode scalar values when it is parsed, upper-cased or     *)
(* serialised.                                                             *)
(***************************************************************************)
EXTENDS Integers, Sequences, FiniteSets

(***************************************************************************)
(* UTF-8: CStr::to_str (validation) and the str <-> scalar value views.    *)
(***************************************************************************)

IsCont(bs, i) == i <= Len(bs) /\ bs[i] >= 128 /\ bs[i] <= 191

InRange(bs, i, lo, hi) == i <= Len(bs) /\ bs[i] >= lo /\ bs[i] <= hi

\* Width of the well-formed UTF-8 sequence starting at bs[i]; 0 if there is none
\* (overlong forms, surrogates and values above U+10FFFF are rejected).
Utf8Width(bs, i) ==
  LET b == bs[i]
  IN  IF b < 128 THEN 1
      ELSE IF b >= 194 /\ b <= 223 /\ IsCont(bs, i + 1) THEN 2
      ELSE IF b = 224 /\ InRange(bs, i + 1, 160, 191) /\ IsCont(bs, i + 2) THEN 3
      ELSE IF b >= 225 /\ b <= 236 /\ IsCont(bs, i + 1) /\ IsCont(bs, i + 2) THEN 3
      ELSE IF b = 237 /\ InRange(bs, i + 1, 128, 159) /\ IsCont(bs, i + 2) THEN 3
      ELSE IF b >= 238 /\ b <= 239 /\ IsCont(bs, i + 1) /\ IsCont(bs, i + 2) THEN 3
      ELSE IF b = 240 /\ InRange(bs, i + 1, 144, 191)
                /\ IsCont(bs, i + 2) /\ IsCont(bs, i + 3) THEN 4
      ELSE IF b >= 241 /\ b <= 243 /\ IsCont(bs, i + 1)
                /\ IsCont(bs, i + 2) /\ IsCont(bs, i + 3) THEN 4
      ELSE IF b = 244 /\ InRange(bs, i + 1, 128, 143)
                /\ IsCont(bs, i + 2) /\ IsCont(bs, i + 3) THEN 4
      ELSE 0

\* A byte that is not a continuation byte: it starts a sequence if anything does.
IsLead(bs, i) == ~(bs[i] >= 128 /\ bs[i] <= 191)

\* std::str::from_utf8(bytes).is_ok().  The validation walks the bytes one sequence
\* at a time; it accepts exactly when every lead byte starts a well-formed sequence
\* and every continuation byte lies inside the sequence of the lead before it.
ValidUtf8(bs) ==
  \A i \in 1..Len(bs) :
    IF IsLead(bs, i) THEN Utf8Width(bs, i) > 0
    ELSE \E k \in 1..3 :
           /\ i - k >= 1
           /\ IsLead(bs, i - k)
           /\ Utf8Width(bs, i - k) > k
           /\ \A j \in (i - k + 1)..(i - 1) : ~IsLead(bs, j)

\* The scalar value encoded by the w bytes at bs[i].
ScalarAt(bs, i, w) ==
  IF w = 1 THEN bs[i]
  ELSE IF w = 2 THEN (bs[i] - 192) * 64 + (bs[i + 1] - 128)
  ELSE IF w = 3 THEN (bs[i] - 224) * 4096 + (bs[i + 1] - 128) * 64 + (bs[i + 2] - 128)
  ELSE (bs[i] - 240) * 262144 + (bs[i + 1] - 128) * 4096
         + (bs[i + 2] - 128) * 64 + (bs[i + 3] - 128)

\* str::chars() of a valid UTF-8 byte string: one scalar value per lead byte.
Chars(bs) ==
  LET leads == SelectSeq([i \in 1..Len(bs) |-> i], LAMBDA i : IsLead(bs, i))
  IN  [k \in 1..Len(leads) |-> ScalarAt(bs, leads[k], Utf8Width(bs, leads[k]))]

\* char::encode_utf8
EncodeChar(c) ==
  IF c < 128 THEN << c >>
  ELSE IF c < 2048 THEN << 192 + (c \div 64), 128 + (c % 64) >>
  ELSE IF c < 65536 THEN << 224 + (c \div 4096), 128 + ((c \div 64) % 64), 128 + (c % 64) >>
  ELSE << 240 + (c \div 262144), 128 + ((c \div 4096) % 64),
          128 + ((c \div 64) % 64), 128 + (c % 64) >>

RECURSIVE Concat(_, _, _)
\* parts[lo] \o ... \o parts[hi]
Concat(parts, lo, hi) ==
  IF lo > hi THEN << >>
  ELSE IF lo = hi THEN parts[lo]
  ELSE LET mid == (lo + hi) \div 2
       IN  Concat(parts, lo, mid) \o Concat(parts, mid + 1, hi)

\* String::bytes() / into_bytes(): the UTF-8 bytes of a sequence of scalar values.
Bytes(cs) == Concat([i \in 1..Len(cs) |-> EncodeChar(cs[i])], 1, Len(cs))

(***************************************************************************)
(* serde_json: Value, json!, Value::to_string, from_str, Index, as_str.    *)
(* A Value is [kind, val]; an object keeps its members sorted by key       *)
(* (serde_json's default BTreeMap).  A number keeps its literal text.      *)
(***************************************************************************)

NullV == [kind |-> "null", val |-> << >>]

BoolV(b) == [kind |-> "bool", val |-> b]

NumV(text) == [kind |-> "num", val |-> text]

StrV(cs) == [kind |-> "str", val |-> cs]

ArrV(items) == [kind |-> "arr", val |-> items]

ObjV(members) == [kind |-> "obj", val |-> members]

RECURSIVE StrLess(_, _)
\* Ord for String: lexicographic by bytes, which is by scalar value.
StrLess(a, b) ==
  IF b = << >> THEN FALSE
  ELSE IF a = << >> THEN TRUE
  ELSE IF Head(a) # Head(b) THEN Head(a) < Head(b)
  ELSE StrLess(Tail(a), Tail(b))

RECURSIVE MapInsert(_, _, _)
\* Map::insert: a later member replaces an earlier one of the same key.
MapInsert(ms, k, v) ==
  IF ms = << >> THEN << [k |-> k, v |-> v] >>
  ELSE IF Head(ms).k = k THEN << [k |-> k, v |-> v] >> \o Tail(ms)
  ELSE IF StrLess(k, Head(ms).k) THEN << [k |-> k, v |-> v] >> \o ms
  ELSE << Head(ms) >> \o MapInsert(Tail(ms), k, v)

HexDigit(n) == IF n < 10 THEN 48 + n ELSE 87 + n

\* Variant: quote and backslash are escaped, control characters are written raw.
EscapeCharRaw(c) ==
  IF c = 34 THEN << 92, 34 >> ELSE IF c = 92 THEN << 92, 92 >> ELSE << c >>

\* serde_json's ESCAPE table: quote, backslash, and every control character.
EscapeChar(c) ==
  IF c = 34 THEN << 92, 34 >>
  ELSE IF c = 92 THEN << 92, 92 >>
  ELSE IF c = 8 THEN << 92, 98 >>
  ELSE IF c = 9 THEN << 92, 116 >>
  ELSE IF c = 10 THEN << 92, 110 >>
  ELSE IF c = 12 THEN << 92, 102 >>
  ELSE IF c = 13 THEN << 92, 114 >>
  ELSE IF c < 32 THEN << 92, 117, 48, 48, HexDigit(c \div 16), HexDigit(c % 16) >>
  ELSE << c >>

EscapeStr(cs) == Concat([i \in 1..Len(cs) |-> EscapeChar(cs[i])], 1, Len(cs))

Quoted(cs) == << 34 >> \o EscapeStr(cs) \o << 34 >>

RECURSIVE Serialize(_)
RECURSIVE SerializeItems(_)
RECURSIVE SerializeMembers(_)
\* Value::to_string(): the compact form, as scalar values.
Serialize(v) ==
  CASE v.kind = "null" -> << 110, 117, 108, 108 >>
    [] v.kind = "bool" -> IF v.val THEN << 116, 114, 117, 101 >>
                                   ELSE << 102, 97, 108, 115, 101 >>
    [] v.kind = "num"  -> v.val
    [] v.kind = "str"  -> Quoted(v.val)
    [] v.kind = "arr"  -> << 91 >> \o SerializeItems(v.val) \o << 93 >>
    [] v.kind = "obj"  -> << 123 >> \o SerializeMembers(v.val) \o << 125 >>

SerializeItems(xs) ==
  IF xs = << >> THEN << >>
  ELSE Serialize(Head(xs))
         \o (IF Len(xs) > 1 THEN << 44 >> ELSE << >>) \o SerializeItems(Tail(xs))

SerializeMembers(ms) ==
  IF ms = << >> THEN << >>
  ELSE Quoted(Head(ms).k) \o << 58 >> \o Serialize(Head(ms).v)
         \o (IF Len(ms) > 1 THEN << 44 >> ELSE << >>) \o SerializeMembers(Tail(ms))

ParseFail == [ok |-> FALSE, v |-> NullV, i |-> 0]

ParseOk(v, i) == [ok |-> TRUE, v |-> v, i |-> i]

RECURSIVE SkipWs(_, _)
SkipWs(cs, i) ==
  IF i <= Len(cs) /\ cs[i] \in {32, 9, 10, 13} THEN SkipWs(cs, i + 1) ELSE i

HexVal(c) ==
  IF c >= 48 /\ c <= 57 THEN c - 48
  ELSE IF c >= 97 /\ c <= 102 THEN c - 87
  ELSE IF c >= 65 /\ c <= 70 THEN c - 55
  ELSE -1

\* The value of the four hex digits at cs[i..i+3], -1 if they are not four hex digits.
Hex4(cs, i) ==
  IF i + 3 > Len(cs) THEN -1
  ELSE LET a == HexVal(cs[i])
           b == HexVal(cs[i + 1])
           c == HexVal(cs[i + 2])
           d == HexVal(cs[i + 3])
       IN  IF a < 0 \/ b < 0 \/ c < 0 \/ d < 0 THEN -1
           ELSE a * 4096 + b * 256 + c * 16 + d

RECURSIVE ParseStrBody(_, _, _)
\* The rest of a string literal whose opening quote has been read; v is its text.
ParseStrBody(cs, i, acc) ==
  IF i > Len(cs) THEN ParseFail
  ELSE LET c == cs[i]
       IN  IF c = 34 THEN ParseOk(acc, i + 1)
           ELSE IF c < 32 THEN ParseFail
           ELSE IF c # 92 THEN ParseStrBody(cs, i + 1, Append(acc, c))
           ELSE IF i + 1 > Len(cs) THEN ParseFail
           ELSE LET e == cs[i + 1]
                IN  IF e \in {34, 92, 47} THEN ParseStrBody(cs, i + 2, Append(acc, e))
                    ELSE IF e = 98 THEN ParseStrBody(cs, i + 2, Append(acc, 8))
                    ELSE IF e = 102 THEN ParseStrBody(cs, i + 2, Append(acc, 12))
                    ELSE IF e = 110 THEN ParseStrBody(cs, i + 2, Append(acc, 10))
                    ELSE IF e = 114 THEN ParseStrBody(cs, i + 2, Append(acc, 13))
                    ELSE IF e = 116 THEN ParseStrBody(cs, i + 2, Append(acc, 9))
                    ELSE IF e # 117 THEN ParseFail
                    ELSE LET n == Hex4(cs, i + 2)
                         IN  IF n < 0 \/ (n >= 56320 /\ n <= 57343) THEN ParseFail
                             ELSE IF n < 55296 \/ n > 56319
                               THEN ParseStrBody(cs, i + 6, Append(acc, n))
                             ELSE IF i + 7 > Len(cs) \/ cs[i + 6] # 92 \/ cs[i + 7] # 117
                               THEN ParseFail
                             ELSE LET m == Hex4(cs, i + 8)
                                  IN  IF m < 56320 \/ m > 57343 THEN ParseFail
                                      ELSE ParseStrBody(cs, i + 12,
                                             Append(acc, 65536 + (n - 55296) * 1024
                                                           + (m - 56320)))

RECURSIVE DigitsEnd(_, _)
\* The index after the run of decimal digits that starts at cs[i].
DigitsEnd(cs, i) ==
  IF i <= Len(cs) /\ cs[i] >= 48 /\ cs[i] <= 57 THEN DigitsEnd(cs, i + 1) ELSE i

ParseNumber(cs, i) ==
  LET s == IF cs[i] = 45 THEN i + 1 ELSE i
      intEnd == IF s <= Len(cs) /\ cs[s] = 48 THEN s + 1 ELSE DigitsEnd(cs, s)
      hasFrac == intEnd <= Len(cs) /\ cs[intEnd] = 46
      fracEnd == IF hasFrac THEN DigitsEnd(cs, intEnd + 1) ELSE intEnd
      hasExp == fracEnd <= Len(cs) /\ cs[fracEnd] \in {69, 101}
      expFrom == IF fracEnd + 1 <= Len(cs) /\ cs[fracEnd + 1] \in {43, 45}
                 THEN fracEnd + 2 ELSE fracEnd + 1
      expEnd == IF hasExp THEN DigitsEnd(cs, expFrom) ELSE fracEnd
  IN  IF intEnd = s \/ (hasFrac /\ fracEnd = intEnd + 1) \/ (hasExp /\ expEnd = expFrom)
      THEN ParseFail
      ELSE ParseOk(NumV(SubSeq(cs, i, expEnd - 1)), expEnd)

ParseWord(cs, i, word, v) ==
  IF i + Len(word) - 1 <= Len(cs) /\ SubSeq(cs, i, i + Len(word) - 1) = word
  THEN ParseOk(v, i + Len(word))
  ELSE ParseFail

\* A parsed string literal as a value.
StrResult(r) == IF r.ok THEN ParseOk(StrV(r.v), r.i) ELSE ParseFail

RECURSIVE ParseValue(_, _)
RECURSIVE ParseMembers(_, _, _, _)
RECURSIVE ParseElements(_, _, _, _)

\* The value that starts at cs[i], whitespace already skipped.
ValueAt(cs, i) ==
  IF i > Len(cs) THEN ParseFail
  ELSE IF cs[i] = 123 THEN ParseMembers(cs, i + 1, << >>, TRUE)
  ELSE IF cs[i] = 91 THEN ParseElements(cs, i + 1, << >>, TRUE)
  ELSE IF cs[i] = 34 THEN StrResult(ParseStrBody(cs, i + 1, << >>))
  ELSE IF cs[i] = 110 THEN ParseWord(cs, i, << 110, 117, 108, 108 >>, NullV)
  ELSE IF cs[i] = 116 THEN ParseWord(cs, i, << 116, 114, 117, 101 >>, BoolV(TRUE))
  ELSE IF cs[i] = 102 THEN ParseWord(cs, i, << 102, 97, 108, 115, 101 >>, BoolV(FALSE))
  ELSE IF cs[i] = 45 \/ (cs[i] >= 48 /\ cs[i] <= 57) THEN ParseNumber(cs, i)
  ELSE ParseFail

ParseValue(cs, i0) == ValueAt(cs, SkipWs(cs, i0))

\* After a member: a comma and more members, or the closing brace.
MemberEnd(cs, m, acc) ==
  IF m > Len(cs) THEN ParseFail
  ELSE IF cs[m] = 44 THEN ParseMembers(cs, m + 1, acc, FALSE)
  ELSE IF cs[m] = 125 THEN ParseOk(ObjV(acc), m + 1)
  ELSE ParseFail

\* A member whose key key and value r have been read.
AfterMember(cs, key, r, acc) ==
  IF ~r.ok THEN ParseFail
  ELSE MemberEnd(cs, SkipWs(cs, r.i), MapInsert(acc, key, r.v))

\* A member whose key key has been read: the colon at cs[j], then the value.
AfterKey(cs, key, j, acc) ==
  IF j > Len(cs) \/ cs[j] # 58 THEN ParseFail
  ELSE AfterMember(cs, key, ParseValue(cs, j + 1), acc)

\* A member whose key literal has been read as k.
MemberKey(cs, k, acc) ==
  IF ~k.ok THEN ParseFail ELSE AfterKey(cs, k.v, SkipWs(cs, k.i), acc)

\* The members of an object from cs[i], whitespace already skipped.
MembersAt(cs, i, acc, first) ==
  IF i > Len(cs) THEN ParseFail
  ELSE IF first /\ cs[i] = 125 THEN ParseOk(ObjV(acc), i + 1)
  ELSE IF cs[i] # 34 THEN ParseFail
  ELSE MemberKey(cs, ParseStrBody(cs, i + 1, << >>), acc)

\* The members of an object after its brace (first) or after a comma.
ParseMembers(cs, i0, acc, first) == MembersAt(cs, SkipWs(cs, i0), acc, first)

\* After an element: a comma and more elements, or the closing bracket.
ElementEnd(cs, m, acc) ==
  IF m > Len(cs) THEN ParseFail
  ELSE IF cs[m] = 44 THEN ParseElements(cs, m + 1, acc, FALSE)
  ELSE IF cs[m] = 93 THEN ParseOk(ArrV(acc), m + 1)
  ELSE ParseFail

\* An element that has been read as r.
AfterElement(cs, r, acc) ==
  IF ~r.ok THEN ParseFail ELSE ElementEnd(cs, SkipWs(cs, r.i), Append(acc, r.v))

\* The elements of an array from cs[i], whitespace already skipped.
ElementsAt(cs, i, acc, first) ==
  IF i > Len(cs) THEN ParseFail
  ELSE IF first /\ cs[i] = 93 THEN ParseOk(ArrV(acc), i + 1)
  ELSE AfterElement(cs, ParseValue(cs, i), acc)

\* The elements of an array after its bracket (first) or after a comma.
ParseElements(cs, i0, acc, first) == ElementsAt(cs, SkipWs(cs, i0), acc, first)

\* The whole text was one value and trailing whitespace.
Complete(cs, r) ==
  IF r.ok /\ SkipWs(cs, r.i) > Len(cs) THEN [ok |-> TRUE, v |-> r.v]
  ELSE [ok |-> FALSE, v |-> NullV]

\* serde_json::from_str: one value, then nothing but whitespace.
FromStr(cs) == Complete(cs, ParseValue(cs, 1))

\* v[key]: the member of an object, Value::Null for anything else.
IndexKey(v, key) ==
  IF v.kind = "obj" /\ \E n \in 1..Len(v.val) : v.val[n].k = key
  THEN v.val[CHOOSE n \in 1..Len(v.val) : v.val[n].k = key].v
  ELSE NullV

\* v[n]: the element of an array, Value::Null for anything else.
IndexNum(v, n) ==
  IF v.kind = "arr" /\ n + 1 <= Len(v.val) THEN v.val[n + 1] ELSE NullV

\* Variant: as_str().unwrap_or_default(), the empty text for anything but a string.
AsStrOrEmpty(v) == [some |-> TRUE, s |-> IF v.kind = "str" THEN v.val ELSE << >>]

\* Value::as_str
AsStr(v) == IF v.kind = "str" THEN [some |-> TRUE, s |-> v.val]
            ELSE [some |-> FALSE, s |-> << >>]

\* Variant: to_ascii_uppercase, which changes a..z alone.
UpperCharAscii(c) == IF c >= 97 /\ c <= 122 THEN << c - 32 >> ELSE << c >>

\* char::to_uppercase, exact for the scalar values below U+0100.
UpperChar(c) ==
  IF c >= 97 /\ c <= 122 THEN << c - 32 >>
  ELSE IF c = 181 THEN << 924 >>
  ELSE IF c = 223 THEN << 83, 83 >>
  ELSE IF c >= 224 /\ c <= 254 /\ c # 247 THEN << c - 32 >>
  ELSE IF c = 255 THEN << 376 >>
  ELSE << c >>

\* str::to_uppercase
ToUppercase(cs) == Concat([i \in 1..Len(cs) |-> UpperChar(cs[i])], 1, Len(cs))

(***************************************************************************)
(* Texts: the keys and literals of the modules, and the input buffers the  *)
(* host supplies.  Each is written as its bytes (ASCII unless noted).      *)
(***************************************************************************)

\* {"results":{"bindings":[{"value_1":{"value":"hello"}}]}}
DocHello ==
  << 123, 34, 114, 101, 115, 117, 108, 116, 115, 34, 58, 123, 34, 98, 105, 110, 100,
     105, 110, 103, 115, 34, 58, 91, 123, 34, 118, 97, 108, 117, 101, 95, 49, 34, 58,
     123, 34, 118, 97, 108, 117, 101, 34, 58, 34, 104, 101, 108, 108, 111, 34, 125,
     125, 93, 125, 125 >>

\* {"results":{"bindings":[{"value_1":{"value":"\u00e9\u00df\u00ff z"}}]}}  (raw UTF-8)
DocAccent ==
  << 123, 34, 114, 101, 115, 117, 108, 116, 115, 34, 58, 123, 34, 98, 105, 110, 100,
     105, 110, 103, 115, 34, 58, 91, 123, 34, 118, 97, 108, 117, 101, 95, 49, 34, 58,
     123, 34, 118, 97, 108, 117, 101, 34, 58, 34, 195, 169, 195, 159, 195, 191, 32,
     122, 34, 125, 125, 93, 125, 125 >>

\* {"results":{"bindings":[{"value_1":{"value":"a\u0000b\n\u001fc"}}]}}
DocControl ==
  << 123, 34, 114, 101, 115, 117, 108, 116, 115, 34, 58, 123, 34, 98, 105, 110, 100,
     105, 110, 103, 115, 34, 58, 91, 123, 34, 118, 97, 108, 117, 101, 95, 49, 34, 58,
     123, 34, 118, 97, 108, 117, 101, 34, 58, 34, 97, 92, 117, 48, 48, 48, 48, 98, 92,
     110, 92, 117, 48, 48, 49, 102, 99, 34, 125, 125, 93, 125, 125 >>

\* {"results":{"bindings":[{},{"value[1]":{"value":"hi \u00e9"}}]}}  (raw UTF-8)
DocSecond ==
  << 123, 34, 114, 101, 115, 117, 108, 116, 115, 34, 58, 123, 34, 98, 105, 110, 100,
     105, 110, 103, 115, 34, 58, 91, 123, 125, 44, 123, 34, 118, 97, 108, 117, 101, 91,
     49, 93, 34, 58, 123, 34, 118, 97, 108, 117, 101, 34, 58, 34, 104, 105, 32, 195,
     169, 34, 125, 125, 93, 125, 125 >>

\* {"results":{"bindings":[{"value_2":{"value":"x"}}]}}
DocNoKey ==
  << 123, 34, 114, 101, 115, 117, 108, 116, 115, 34, 58, 123, 34, 98, 105, 110, 100,
     105, 110, 103, 115, 34, 58, 91, 123, 34, 118, 97, 108, 117, 101, 95, 50, 34, 58,
     123, 34, 118, 97, 108, 117, 101, 34, 58, 34, 120, 34, 125, 125, 93, 125, 125 >>

\* {"results":{"bindings":[]}}
DocNoIndex ==
  << 123, 34, 114, 101, 115, 117, 108, 116, 115, 34, 58, 123, 34, 98, 105, 110, 100,
     105, 110, 103, 115, 34, 58, 91, 93, 125, 125 >>

\* {"results":{"bindings":"none"}}
DocScalar ==
  << 123, 34, 114, 101, 115, 117, 108, 116, 115, 34, 58, 123, 34, 98, 105, 110, 100,
     105, 110, 103, 115, 34, 58, 34, 110, 111, 110, 101, 34, 125, 125 >>

\* {"results":{"bindings":[{"value_1":{"value":7}},{"value[1]":{"value":null}}]}}
DocNotText ==
  << 123, 34, 114, 101, 115, 117, 108, 116, 115, 34, 58, 123, 34, 98, 105, 110, 100,
     105, 110, 103, 115, 34, 58, 91, 123, 34, 118, 97, 108, 117, 101, 95, 49, 34, 58,
     123, 34, 118, 97, 108, 117, 101, 34, 58, 55, 125, 125, 44, 123, 34, 118, 97, 108,
     117, 101, 91, 49, 93, 34, 58, 123, 34, 118, 97, 108, 117, 101, 34, 58, 110, 117,
     108, 108, 125, 125, 93, 125, 125 >>

\* {"results":{"bindings":[{"value_1":{"value":""}},{"value[1]":{"value":""}}]}}
DocEmpty ==
  << 123, 34, 114, 101, 115, 117, 108, 116, 115, 34, 58, 123, 34, 98, 105, 110, 100,
     105, 110, 103, 115, 34, 58, 91, 123, 34, 118, 97, 108, 117, 101, 95, 49, 34, 58,
     123, 34, 118, 97, 108, 117, 101, 34, 58, 34, 34, 125, 125, 44, 123, 34, 118, 97,
     108, 117, 101, 91, 49, 93, 34, 58, 123, 34, 118, 97, 108, 117, 101, 34, 58, 34,
     34, 125, 125, 93, 125, 125 >>

\* {"results":{"bindings":[{"value_1":
DocBroken ==
  << 123, 34, 114, 101, 115, 117, 108, 116, 115, 34, 58, 123, 34, 98, 105, 110, 100,
     105, 110, 103, 115, 34, 58, 91, 123, 34, 118, 97, 108, 117, 101, 95, 49, 34, 58 >>

\* {"results":"<FF><C3>"}  (not UTF-8)
DocBadUtf8 ==
  << 123, 34, 114, 101, 115, 117, 108, 116, 115, 34, 58, 34, 255, 195, 34, 125 >>

\* head
KeyHead == << 104, 101, 97, 100 >>

\* vars
KeyVars == << 118, 97, 114, 115 >>

\* result
KeyResult == << 114, 101, 115, 117, 108, 116 >>

\* results
KeyResults == << 114, 101, 115, 117, 108, 116, 115 >>

\* bindings
KeyBindings == << 98, 105, 110, 100, 105, 110, 103, 115 >>

\* type
KeyType == << 116, 121, 112, 101 >>

\* value
KeyValue == << 118, 97, 108, 117, 101 >>

\* value_1
KeyValue1 == << 118, 97, 108, 117, 101, 95, 49 >>

\* value[1]
KeyValueIdx1 == << 118, 97, 108, 117, 101, 91, 49, 93 >>

\* literal
TextLiteral == << 108, 105, 116, 101, 114, 97, 108 >>

\* 3.141592653589793
TextPi == << 51, 46, 49, 52, 49, 53, 57, 50, 54, 53, 51, 53, 56, 57, 55, 57, 51 >>

\* 2.718281828459045
TextE == << 50, 46, 55, 49, 56, 50, 56, 49, 56, 50, 56, 52, 53, 57, 48, 52, 53 >>

\* 1.0471975511965979
TextFracPi3 == << 49, 46, 48, 52, 55, 49, 57, 55, 53, 53, 49, 49, 57, 54, 53, 57, 55, 57 >>

\* HELLO
UpperHello == << 72, 69, 76, 76, 79 >>

\* \xc9SS\u0178 Z
UpperAccent == << 201, 83, 83, 376, 32, 90 >>

\* A\x00B\n\x1fC
UpperControl == << 65, 0, 66, 10, 31, 67 >>

\* HI \xc9
UpperSecond == << 72, 73, 32, 201 >>

InputTexts ==
  { DocHello, DocAccent, DocControl, DocSecond, DocNoKey, DocNoIndex, DocScalar,
    DocNotText, DocEmpty, DocBroken, DocBadUtf8 }

(***************************************************************************)
(* Bounds of the model.                                                    *)
(***************************************************************************)

\* Bytes of guest heap of an instance that runs evaluate.
HeapBytes == 320

\* Bytes of guest heap of an instance whose allocator alone is exercised.
SmallHeapBytes == 7

\* First heap address (addresses below hold the guest's static data and stack).
HeapBase == 8

\* Size of the buffer the host allocates for an input document.
HostBufSize == 79

\* Largest size asked of malloc when the allocator alone is exercised.
MaxAllocSize == 3

\* Guest calls (malloc, free, evaluate) the host makes on one instance.
MaxCalls == 4

\* Guest calls (malloc, free) made when the allocator alone is exercised.
MaxAllocCalls == 5

\* Calls remembered in hist.
HistWindow == 4

\* Longest byte string passed through the buffer codec on its own.
MaxStrLen == 3

(***************************************************************************)
(* State.                                                                  *)
(***************************************************************************)

VARIABLES
  module,   \* the module this guest instance was built from
  mem,      \* [lo, hi]: the address range the global allocator hands out
  heap,     \* live Regions: set of [addr, cap, bytes], Len(bytes) = cap
  zeros,    \* zero-size handles the host holds (malloc(0) reserves nothing)
  status,   \* "idle", or "aborted" once a call has panicked
  budget,   \* guest calls the host may still make
  window,   \* how many operations hist remembers
  hist,     \* the last operations, each with the heap before it
  codec     \* the codec run on its own: [pc, s, ptr, back]

vars == << module, mem, heap, zeros, status, budget, window, hist, codec >>

Modules == {"pi", "e", "frac_pi_3", "to_upper", "toupper_ptr_len"}

ConstantModules == {"pi", "e", "frac_pi_3"}

\* pi, e and to_upper re-export stardog_function's allocator pair, taken here to be
\* the malloc / free of toupper_ptr_len; frac_pi_3 exports evaluate alone.
HasAllocator(m) == m # "frac_pi_3"

\* A byte of a Region that nothing has written yet.
Uninit == -1

\* The address of an empty Vec: NonNull::dangling() for an element of alignment 1.
Dangling == 1

\* What evaluate's return value is when the call did not return.
NoAddress == -1

(***************************************************************************)
(* The global allocator behind Vec and CString.                            *)
(***************************************************************************)

Overlaps(a, n, r) == a < r.addr + r.cap /\ r.addr < a + n

\* Variant: a placement that looks at the heap's ends only, not at the live Regions.
IsFreeIgnoringLive(h, a, n) == a >= mem.lo /\ a + n - 1 <= mem.hi

\* [a, a + n) lies in the heap and touches no live Region of h.
IsFree(h, a, n) ==
  /\ a >= mem.lo
  /\ a + n - 1 <= mem.hi
  /\ \A r \in h : ~Overlaps(a, n, r)

\* The addresses next to the heap's ends and to the live Regions of h.
Edges(h, n) ==
  {mem.lo, mem.hi - n + 1} \cup { r.addr + r.cap : r \in h } \cup { r.addr - n : r \in h }

\* Where the allocator may place n > 0 bytes: at either end of a free gap.
Candidates(h, n) == { a \in Edges(h, n) : IsFree(h, a, n) }

\* Variant: the rebuilt Vec is forgotten instead of dropped, so nothing is released.
DeallocLeak(h, ptr, cap) == h

\* dealloc of the block at ptr; a Vec of capacity 0 owns no block.
Dealloc(h, ptr, cap) == IF cap = 0 THEN h ELSE { r \in h : r.addr # ptr }

RegionAt(h, ptr) == CHOOSE r \in h : r.addr = ptr

(***************************************************************************)
(* Buffer codec: CString::from_vec_unchecked(..).into_raw() and            *)
(* CStr::from_ptr(..).to_str().                                            *)
(***************************************************************************)

\* The boxed slice a CString owns: the bytes and one terminator, nothing spare.
IntoRaw(at, bs) == [addr |-> at, cap |-> Len(bs) + 1, bytes |-> Append(bs, 0)]

\* A Region that holds initialised bytes up to a terminator.
HasCStr(r) ==
  \E i \in 1..r.cap : r.bytes[i] = 0 /\ \A j \in 1..(i - 1) : r.bytes[j] > 0

\* Variant: to_bytes_with_nul(), which keeps the terminator.
CStrWithNul(h, ptr) ==
  LET r == RegionAt(h, ptr)
      n == CHOOSE i \in 1..r.cap : r.bytes[i] = 0 /\ \A j \in 1..(i - 1) : r.bytes[j] # 0
  IN  SubSeq(r.bytes, 1, n)

\* CStr::from_ptr(ptr).to_bytes(): the bytes from ptr up to the first terminator.
CStrFromPtr(h, ptr) ==
  LET r == RegionAt(h, ptr)
      n == CHOOSE i \in 1..r.cap : r.bytes[i] = 0 /\ \A j \in 1..(i - 1) : r.bytes[j] # 0
  IN  SubSeq(r.bytes, 1, n - 1)

\* CStr::to_str(): the same bytes when they are UTF-8, else Utf8Error.
ToStr(bs) == [ok |-> ValidUtf8(bs), s |-> bs]

(***************************************************************************)
(* evaluate.                                                               *)
(***************************************************************************)

\* The f64 constant as serde_json prints it (shortest text that reads back).
ConstText(m) ==
  CASE m = "pi" -> TextPi
    [] m = "e" -> TextE
    [] m = "frac_pi_3" -> TextFracPi3

Obj1(k, v) == ObjV(MapInsert(<< >>, k, v))

Obj2(k1, v1, k2, v2) == ObjV(MapInsert(MapInsert(<< >>, k1, v1), k2, v2))

\* Variant: the binding is named after its field, and head.vars with it.
EnvelopeNamedValue(value) ==
  Obj2(KeyHead, Obj1(KeyVars, ArrV(<< StrV(KeyValue) >>)),
       KeyResults,
       Obj1(KeyBindings,
            ArrV(<< Obj1(KeyValue,
                         Obj2(KeyType, StrV(TextLiteral), KeyValue, value)) >>)))

\* json!({"head": {"vars": ["result"]},
\*        "results": {"bindings": [{"result": {"type": "literal", "value": value}}]}})
Envelope(value) ==
  Obj2(KeyHead, Obj1(KeyVars, ArrV(<< StrV(KeyResult) >>)),
       KeyResults,
       Obj1(KeyBindings,
            ArrV(<< Obj1(KeyResult,
                         Obj2(KeyType, StrV(TextLiteral), KeyValue, value)) >>)))

\* v["results"]["bindings"][n][field]["value"] with the module's n and field.
Lookup(m, v) ==
  LET bindings == IndexKey(IndexKey(v, KeyResults), KeyBindings)
  IN  IF m = "to_upper"
      THEN IndexKey(IndexKey(IndexNum(bindings, 0), KeyValue1), KeyValue)
      ELSE IndexKey(IndexKey(IndexNum(bindings, 1), KeyValueIdx1), KeyValue)

Aborted(step, looked) ==
  [status |-> "abort", step |-> step, looked |-> looked, text |-> << >>]

Returns(looked, text) ==
  [status |-> "ok", step |-> "return", looked |-> looked, text |-> text]

\* Lines 15-17: the envelope around the upper-cased text, as bytes.
Uppercased(looked, text) ==
  Returns(looked, Bytes(Serialize(Envelope(StrV(ToUppercase(text))))))

\* Line 13 from as_str on: looked is what the index chain yielded.
RunLooked(looked, text) ==
  IF ~text.some THEN Aborted("as_str", looked) ELSE Uppercased(looked, text.s)

\* Lines 12-13: v is what from_str returned.
RunParsed(m, v) ==
  IF ~v.ok THEN Aborted("from_str", NullV)
  ELSE RunLooked(Lookup(m, v.v), AsStr(Lookup(m, v.v)))

\* Line 9 from to_str on: subject is what it returned.
RunText(m, subject) ==
  IF ~subject.ok THEN Aborted("to_str", NullV)
  ELSE RunParsed(m, FromStr(Chars(subject.s)))

\* A constant module: the envelope around its constant.
RunConstant(m) == Returns(NullV, Bytes(Serialize(Envelope(NumV(ConstText(m))))))

\* Variant: from_utf8_lossy and from_str(..).unwrap_or_default(), so that a text
\* that does not decode or parse is read as null and an envelope is still returned.
RunParsedLenient(m, v) ==
  IF ~v.ok THEN Returns(NullV, Bytes(Serialize(Envelope(NullV))))
  ELSE RunLooked(Lookup(m, v.v), AsStr(Lookup(m, v.v)))

RunTextLenient(m, subject) ==
  RunParsedLenient(m, IF subject.ok THEN FromStr(Chars(subject.s))
                      ELSE [ok |-> FALSE, v |-> NullV])

RunLenient(m, h, ptr, get, add) ==
  IF m \in ConstantModules THEN RunConstant(m)
  ELSE RunTextLenient(m, ToStr(CStrFromPtr(h, ptr)))

\* Variant: the value mappingDictionaryGet returned is checked, and a negative one
\* is a panic.
RunCheckingMapping(m, h, ptr, get, add) ==
  IF m \in ConstantModules THEN RunConstant(m)
  ELSE IF get < 0 THEN Aborted("mapping", NullV)
  ELSE RunText(m, ToStr(CStrFromPtr(h, ptr)))

\* The body of evaluate up to the bytes it is about to hand back: which step
\* panicked, what the index chain yielded, and the envelope's bytes.  get and add
\* are what mappingDictionaryGet and mappingDictionaryAdd returned.
Run(m, h, ptr, get, add) ==
  IF m \in ConstantModules THEN RunConstant(m)
  ELSE RunText(m, ToStr(CStrFromPtr(h, ptr)))

\* Variant: evaluate takes the input over (CString::from_raw) and drops it on return.
ReturnedFreeingInput(h, ptr, out) == { r \in h : r.addr # ptr } \cup {out}

\* The heap when evaluate returns: the output buffer is leaked to the host by
\* into_raw, the input at ptr was only borrowed.
Returned(h, ptr, out) == h \cup {out}

CallbackReturns == {0, -1}

Callbacks(m) == IF m = "toupper_ptr_len" THEN CallbackReturns ELSE {0}

(***************************************************************************)
(* Operations.                                                             *)
(***************************************************************************)

NoRun == [status |-> "none", step |-> "", looked |-> NullV, text |-> << >>]

Entry(op, ptr, size, ret, res, cb) ==
  [op |-> op, ptr |-> ptr, size |-> size, ret |-> ret, pre |-> heap, res |-> res,
   cb |-> cb]

Push(e) ==
  IF Len(hist) < window THEN Append(hist, e) ELSE Append(Tail(hist), e)

Fresh(a, n) == [addr |-> a, cap |-> n, bytes |-> [i \in 1..n |-> Uninit]]

\* The host has written an input it has not yet passed to evaluate.
InputPending == hist # << >> /\ hist[Len(hist)].op = "write"

\* malloc(size): Vec::with_capacity(size), forgotten, its pointer returned.
Malloc(size) ==
  /\ status = "idle"
  /\ ~InputPending
  /\ HasAllocator(module)
  /\ budget > 0
  /\ IF size = 0
     THEN /\ heap' = heap
          /\ zeros' = zeros + 1
          /\ hist' = Push(Entry("malloc", 0, size, Dangling, NoRun, << 0, 0 >>))
     ELSE \E a \in Candidates(heap, size) :
            /\ heap' = heap \cup {Fresh(a, size)}
            /\ zeros' = zeros
            /\ hist' = Push(Entry("malloc", 0, size, a, NoRun, << 0, 0 >>))
  /\ budget' = budget - 1
  /\ UNCHANGED << module, mem, status, window, codec >>

\* free(pointer, capacity) as the contract allows it: a pointer malloc or evaluate
\* returned, with the capacity it was made with, once.
Free(ptr, cap) ==
  /\ status = "idle"
  /\ ~InputPending
  /\ HasAllocator(module)
  /\ budget > 0
  /\ IF cap = 0
     THEN ptr = Dangling /\ zeros > 0 /\ zeros' = zeros - 1
     ELSE (\E r \in heap : r.addr = ptr /\ r.cap = cap) /\ zeros' = zeros
  /\ heap' = Dealloc(heap, ptr, cap)
  /\ hist' = Push(Entry("free", ptr, cap, NoAddress, NoRun, << 0, 0 >>))
  /\ budget' = budget - 1
  /\ UNCHANGED << module, mem, status, window, codec >>

\* The host fills the buffer it has just allocated with a document and its
\* terminator (a constant module is passed no input).
HostWrite(ptr, text) ==
  /\ status = "idle"
  /\ module \notin ConstantModules
  /\ hist # << >>
  /\ hist[Len(hist)].op = "malloc"
  /\ hist[Len(hist)].ret = ptr
  /\ \E r \in heap :
       /\ r.addr = ptr
       /\ \A i \in 1..r.cap : r.bytes[i] = Uninit
       /\ Len(text) + 1 <= r.cap
       /\ heap' = (heap \ {r}) \cup
            { [r EXCEPT !.bytes = [i \in 1..r.cap |->
                 IF i <= Len(text) THEN text[i]
                 ELSE IF i = Len(text) + 1 THEN 0 ELSE Uninit]] }
  /\ hist' = Push(Entry("write", ptr, Len(text), NoAddress, NoRun, << 0, 0 >>))
  /\ UNCHANGED << module, mem, zeros, status, budget, window, codec >>

\* evaluate returns: the result goes to a new Region, whose address is returned.
EvaluateReturns(ptr, res, cb) ==
  /\ res.status = "ok"
  /\ \E at \in Candidates(heap, Len(res.text) + 1) :
       /\ heap' = Returned(heap, ptr, IntoRaw(at, res.text))
       /\ hist' = Push(Entry("evaluate", ptr, 0, at, res, cb))
  /\ status' = "idle"

\* evaluate panics: the call ends without a return value.
EvaluateAborts(ptr, res, cb) ==
  /\ res.status # "ok"
  /\ heap' = heap
  /\ hist' = Push(Entry("evaluate", ptr, 0, NoAddress, res, cb))
  /\ status' = "aborted"

\* evaluate(subject).  A constant module never reads subject; the others are given
\* a buffer that holds a terminated text.
Evaluate(ptr) ==
  /\ status = "idle"
  /\ budget > 0
  /\ module \in ConstantModules \/ \E r \in heap : r.addr = ptr /\ HasCStr(r)
  /\ \E get \in Callbacks(module), add \in Callbacks(module) :
       \E res \in {Run(module, heap, ptr, get, add)} :
         \/ EvaluateReturns(ptr, res, << get, add >>)
         \/ EvaluateAborts(ptr, res, << get, add >>)
  /\ budget' = budget - 1
  /\ UNCHANGED << module, mem, zeros, window, codec >>

NoCodec == [pc |-> "off", s |-> << >>, ptr |-> NoAddress, back |-> [ok |-> FALSE, s |-> << >>]]

Init ==
  /\ module \in Modules
  /\ mem = [lo |-> HeapBase, hi |-> HeapBase + HeapBytes - 1]
  /\ heap = {}
  /\ zeros = 0
  /\ status = "idle"
  /\ budget = MaxCalls
  /\ window = 1
  /\ hist = << >>
  /\ codec = NoCodec

Next ==
  \/ \E n \in {0, HostBufSize} : Malloc(n)
  \/ \E r \in heap : Free(r.addr, r.cap)
  \/ Free(Dangling, 0)
  \/ \E r \in heap, t \in InputTexts : HostWrite(r.addr, t)
  \/ \E p \in {0} \cup { r.addr : r \in heap } : Evaluate(p)

Spec == Init /\ [][Next]_vars

(***************************************************************************)
(* The allocator pair on its own: malloc and free of toupper_ptr_len, any  *)
(* size up to MaxAllocSize, in a heap small enough to fill up.             *)
(***************************************************************************)

InitAlloc ==
  /\ module = "toupper_ptr_len"
  /\ mem = [lo |-> HeapBase, hi |-> HeapBase + SmallHeapBytes - 1]
  /\ heap = {}
  /\ zeros = 0
  /\ status = "idle"
  /\ budget = MaxAllocCalls
  /\ window = HistWindow
  /\ hist = << >>
  /\ codec = NoCodec

NextAlloc ==
  \/ \E n \in 0..MaxAllocSize : Malloc(n)
  \/ \E r \in heap : Free(r.addr, r.cap)
  \/ Free(Dangling, 0)

SpecAlloc == InitAlloc /\ [][NextAlloc]_vars

(***************************************************************************)
(* The buffer codec on its own: a byte string is handed out the way        *)
(* evaluate hands out its result, and read back the way evaluate reads its *)
(* input.                                                                  *)
(***************************************************************************)

\* Bytes the strings are made of: the terminator, 'A', the two bytes of U+00E9,
\* and a byte no UTF-8 text holds.
CodecBytes == {0, 65, 195, 169, 255}

CodecStrings == UNION { [1..n -> CodecBytes] : n \in 0..MaxStrLen }

\* CString::from_vec_unchecked(s).into_raw()
CodecEncode ==
  /\ codec.pc = "start"
  /\ \E at \in Candidates(heap, Len(codec.s) + 1) :
       /\ heap' = heap \cup {IntoRaw(at, codec.s)}
       /\ codec' = [codec EXCEPT !.pc = "encoded", !.ptr = at]
  /\ UNCHANGED << module, mem, zeros, status, budget, window, hist >>

\* CStr::from_ptr(ptr).to_str()
CodecDecode ==
  /\ codec.pc = "encoded"
  /\ codec' = [codec EXCEPT !.pc = "decoded",
                            !.back = ToStr(CStrFromPtr(heap, codec.ptr))]
  /\ UNCHANGED << module, mem, heap, zeros, status, budget, window, hist >>

InitCodec ==
  /\ module = "to_upper"
  /\ mem = [lo |-> HeapBase, hi |-> HeapBase + SmallHeapBytes - 1]
  /\ heap = {}
  /\ zeros = 0
  /\ status = "idle"
  /\ budget = 0
  /\ window = 1
  /\ hist = << >>
  /\ codec \in { [pc |-> "start", s |-> s, ptr |-> NoAddress,
                  back |-> [ok |-> FALSE, s |-> << >>]] : s \in CodecStrings }

NextCodec == CodecEncode \/ CodecDecode

SpecCodec == InitCodec /\ [][NextCodec]_vars

(***************************************************************************)
(* Properties.                                                             *)
(***************************************************************************)

Last == hist[Len(hist)]

LastIs(op) == hist # << >> /\ Last.op = op

Evaluated == LastIs("evaluate")

EvaluatedOk == Evaluated /\ Last.ret # NoAddress

\* The text the last evaluate was given (a constant module is given none).
InputOfLast ==
  IF module \in ConstantModules THEN << >> ELSE CStrFromPtr(Last.pre, Last.ptr)

\* The Region the last evaluate handed back, and the document its text reads as.
OutputRegion == RegionAt(heap, Last.ret)

OutputDoc == FromStr(Chars(CStrFromPtr(heap, Last.ret)))

NoZero(bs) == \A i \in 1..Len(bs) : bs[i] # 0

Keys(v) == [i \in 1..Len(v.val) |-> v.val[i].k]

\* C1: a valid UTF-8 string without a zero byte, encoded into a buffer the way
\* evaluate encodes its output and decoded from the returned address the way
\* to_upper decodes its input, comes back exactly.
C1_RoundTrip ==
  (codec.pc = "decoded" /\ ValidUtf8(codec.s) /\ NoZero(codec.s))
    => codec.back = [ok |-> TRUE, s |-> codec.s]

C1_Witness ==
  /\ codec.pc = "decoded"
  /\ codec.s = << 65, 195, 169 >>
  /\ codec.back.ok

\* C2: a successful evaluate adds exactly one live Region, the one whose address
\* it returns, and releases none: every Region live before the call, the input
\* among them, is live afterwards with the same contents.
C2_EvaluateAddsOneRegion ==
  EvaluatedOk =>
    /\ Last.pre \subseteq heap
    /\ Cardinality(heap \ Last.pre) = 1
    /\ \E r \in heap \ Last.pre : r.addr = Last.ret
    /\ module \notin ConstantModules => RegionAt(Last.pre, Last.ptr) \in heap

C2_Witness ==
  /\ EvaluatedOk
  /\ module = "to_upper"
  /\ InputOfLast = DocHello
  /\ Cardinality(heap) = 2

\* The last four calls were malloc(n1), malloc(n2), free(first address, n1),
\* free(second address, n2).
PairedCalls ==
  /\ Len(hist) >= 4
  /\ LET k == Len(hist) - 3
     IN  /\ hist[k].op = "malloc"
         /\ hist[k + 1].op = "malloc"
         /\ hist[k + 2].op = "free"
         /\ hist[k + 2].ptr = hist[k].ret
         /\ hist[k + 2].size = hist[k].size
         /\ hist[k + 3].op = "free"
         /\ hist[k + 3].ptr = hist[k + 1].ret
         /\ hist[k + 3].size = hist[k + 1].size

\* C3: malloc(n1), malloc(n2), free(first, n1), free(second, n2) leaves the set of
\* live Regions as it was before the first malloc, whatever the state before.
C3_PairedCallsRestoreHeap == PairedCalls => heap = hist[Len(hist) - 3].pre

C3_Witness ==
  /\ PairedCalls
  /\ hist[Len(hist) - 3].pre # {}
  /\ hist[Len(hist) - 3].size = 2
  /\ hist[Len(hist) - 2].size = 1

\* C4: no two live Regions overlap, and malloc(size) returns a Region of at least
\* size bytes that touches no Region that was live when it was called.
C4_RegionsDisjoint ==
  /\ \A r1 \in heap : \A r2 \in heap \ {r1} : ~Overlaps(r1.addr, r1.cap, r2)
  /\ \A r \in heap : r.addr >= mem.lo /\ r.addr + r.cap - 1 <= mem.hi
  /\ LastIs("malloc") =>
       /\ \A q \in Last.pre : ~Overlaps(Last.ret, Last.size, q)
       /\ Last.size > 0 =>
            \E r \in heap \ Last.pre : r.addr = Last.ret /\ r.cap >= Last.size

C4_Witness ==
  /\ LastIs("malloc")
  /\ Last.size = 2
  /\ Last.pre # {}
  /\ Len(hist) >= 3
  /\ hist[Len(hist) - 1].op = "free"

\* The input of the last evaluate is not UTF-8, or is not a well-formed document.
InputUnreadable ==
  /\ Evaluated
  /\ module \notin ConstantModules
  /\ \/ ~ValidUtf8(InputOfLast)
     \/ ~FromStr(Chars(InputOfLast)).ok

\* C5: when the uppercase evaluate is given bytes that are not UTF-8, or a text
\* that is not a well-formed document, the call aborts: it returns no address and
\* has allocated no output Region.
C5_UnreadableInputAborts ==
  InputUnreadable =>
    /\ status = "aborted"
    /\ Last.ret = NoAddress
    /\ heap = Last.pre

C5_Witness ==
  /\ InputUnreadable
  /\ InputOfLast = DocBadUtf8
  /\ status = "aborted"

HasKey(v, key) == v.kind = "obj" /\ \E n \in 1..Len(v.val) : v.val[n].k = key

HasIndex(v, n) == v.kind = "arr" /\ n + 1 <= Len(v.val)

\* The document holds every segment of the module's path.
PathPresent(m, v) ==
  LET n == IF m = "to_upper" THEN 0 ELSE 1
      field == IF m = "to_upper" THEN KeyValue1 ELSE KeyValueIdx1
  IN  /\ HasKey(v, KeyResults)
      /\ HasKey(IndexKey(v, KeyResults), KeyBindings)
      /\ HasIndex(IndexKey(IndexKey(v, KeyResults), KeyBindings), n)
      /\ HasKey(IndexNum(IndexKey(IndexKey(v, KeyResults), KeyBindings), n), field)
      /\ HasKey(IndexKey(IndexNum(IndexKey(IndexKey(v, KeyResults), KeyBindings), n),
                         field), KeyValue)

\* The last evaluate was given a well-formed document that lacks a segment of the
\* module's path.
PathAbsent ==
  /\ Evaluated
  /\ module \notin ConstantModules
  /\ ValidUtf8(InputOfLast)
  /\ FromStr(Chars(InputOfLast)).ok
  /\ ~PathPresent(module, FromStr(Chars(InputOfLast)).v)

UpperCases ==
  { [doc |-> DocHello, up |-> UpperHello],
    [doc |-> DocAccent, up |-> UpperAccent],
    [doc |-> DocControl, up |-> UpperControl],
    [doc |-> DocEmpty, up |-> << >>] }

\* The value field of the envelope the last evaluate returned.
OutputValue ==
  IndexKey(IndexKey(IndexNum(IndexKey(IndexKey(OutputDoc.v, KeyResults), KeyBindings), 0),
                    KeyResult), KeyValue)

\* C7: given a document whose results.bindings[0].value_1.value is a string s,
\* to_upper returns an envelope whose value is the Unicode upper case of s.
C7_UnicodeUppercase ==
  \A c \in UpperCases :
    (Evaluated /\ module = "to_upper" /\ InputOfLast = c.doc) =>
      /\ EvaluatedOk
      /\ OutputDoc.ok
      /\ OutputValue.kind = "str"
      /\ OutputValue.val = c.up

C7_Witness ==
  /\ EvaluatedOk
  /\ module = "to_upper"
  /\ InputOfLast = DocAccent
  /\ OutputValue.val = UpperAccent

\* d is {"head": {"vars": ["result"]},
\*       "results": {"bindings": [{"result": {"type": "literal", "value": ..}}]}}
IsEnvelope(d) ==
  /\ d.kind = "obj"
  /\ Keys(d) = << KeyHead, KeyResults >>
  /\ LET head == IndexKey(d, KeyHead)
         results == IndexKey(d, KeyResults)
     IN  /\ head.kind = "obj"
         /\ Keys(head) = << KeyVars >>
         /\ IndexKey(head, KeyVars).kind = "arr"
         /\ Len(IndexKey(head, KeyVars).val) = 1
         /\ IndexNum(IndexKey(head, KeyVars), 0) = StrV(KeyResult)
         /\ results.kind = "obj"
         /\ Keys(results) = << KeyBindings >>
         /\ IndexKey(results, KeyBindings).kind = "arr"
         /\ Len(IndexKey(results, KeyBindings).val) = 1
         /\ LET binding == IndexNum(IndexKey(results, KeyBindings), 0)
            IN  /\ binding.kind = "obj"
                /\ Keys(binding) = << KeyResult >>
                /\ IndexKey(binding, KeyResult).kind = "obj"
                /\ Keys(IndexKey(binding, KeyResult)) = << KeyType, KeyValue >>
                /\ IndexKey(IndexKey(binding, KeyResult), KeyType) = StrV(TextLiteral)

\* C8: whatever the module, the text a successful evaluate returns is a document
\* of the envelope shape: head.vars is ["result"], results.bindings is one binding
\* whose only key is "result", and its type is "literal".
C8_EnvelopeShape == EvaluatedOk => OutputDoc.ok /\ IsEnvelope(OutputDoc.v)

C8_Witness ==
  /\ EvaluatedOk
  /\ module = "frac_pi_3"
  /\ IsEnvelope(OutputDoc.v)

\* What the host sees of a run of evaluate: that it returned, and the text.
Outcome(res) == [status |-> res.status, text |-> res.text]

C10_OutputTerminatedOnce ==
  EvaluatedOk =>
    /\ OutputRegion.cap = Len(Last.res.text) + 1
    /\ OutputRegion.bytes = Append(Last.res.text, 0)
    /\ \A i \in 1..(OutputRegion.cap - 1) : OutputRegion.bytes[i] # 0
    /\ CStrFromPtr(heap, Last.ret) = Last.res.text
    /\ OutputDoc.ok

C10_Witness ==
  /\ EvaluatedOk
  /\ module = "to_upper"
  /\ InputOfLast = DocControl
  /\ OutputValue.val = UpperControl
====
